---- MODULE Spec2Model ----
(***************************************************************************)
(* Model of the typed-result decoder of the Malloy Publisher Python SDK    *)
(* (packages/python-client/malloy_publisher_sdk/utils.py): the operations  *)
(* to_dict, to_dataframe and get_schema, the helpers _parse_malloy_result  *)
(* and _extract_cell_value, and the module-global capability flag pd.      *)
(***************************************************************************)
EXTENDS Integers, Sequences, FiniteSets, TLC

VARIABLES
    pd,            \* module global: TRUE iff "import pandas" succeeded at load
    query_result,  \* the argument of the calls
    op,            \* the operation called last ("none" before the first call)
    outcome,       \* what that call returned or raised
    site,          \* per call site: the call in progress and its local names
    local_rows,    \* per call site: the list the local name rows is bound to
    CONVERSATION_CACHE,  \* the Slack bot's module global: conversation id -> history
    handler,       \* per listener thread: the request in hand and the handler's locals
    delivered      \* number of requests the Socket Mode client has delivered

vars == <<pd, query_result, op, outcome>>
site_vars == <<site, local_rows>>
bot_vars == <<CONVERSATION_CACHE, handler, delivered>>

-----------------------------------------------------------------------------
(* Bounds of the input universe.                                           *)

MaxFields == 2   \* longest schema.fields
MaxCells == 2    \* longest record_value
MaxRows == 2     \* longest data.array_value
MaxRequests == 2 \* requests delivered to the Slack bot

-----------------------------------------------------------------------------
(* Python values.  Every value is a record [t, v] tagged with its type.     *)
(* A dict is the sequence of its <<key, value>> pairs in insertion order,   *)
(* keys being strings.  A str that holds JSON text is tagged "json" and     *)
(* is the sequence of its tokens: the punctuation marks and, for each       *)
(* scalar literal, the value it denotes.  Every other str is tagged "str".  *)

PyNone == [t |-> "none", v |-> "None"]
PyStr(s) == [t |-> "str", v |-> s]
PyNum(n) == [t |-> "num", v |-> n]
PyBool(b) == [t |-> "bool", v |-> b]
PyList(s) == [t |-> "list", v |-> s]
PyDict(pairs) == [t |-> "dict", v |-> pairs]
Punct(c) == [t |-> "punct", v |-> c]
PyTimestamp(lit) == [t |-> "Timestamp", v |-> lit]
NaN == [t |-> "NaN", v |-> "NaN"]

EmptyDict == PyDict(<<>>)
Dict1(k, x) == PyDict(<< <<k, x>> >>)
Dict2(k1, x1, k2, x2) == PyDict(<< <<k1, x1>>, <<k2, x2>> >>)

isinstance_str(x) == x.t \in {"str", "json"}

(* Outcome of an evaluation: a value, or a raised exception.               *)
Return(x) == [ok |-> TRUE, val |-> x, exc |-> "", msg |-> ""]
Raise(e, m) == [ok |-> FALSE, val |-> PyNone, exc |-> e, msg |-> m]

Keys(d) == [i \in 1..Len(d.v) |-> d.v[i][1]]
HasKey(d, k) == \E i \in 1..Len(d.v) : d.v[i][1] = k
Lookup(d, k) == d.v[CHOOSE i \in 1..Len(d.v) : d.v[i][1] = k][2]

(* d[k] = x on a dict: an existing key keeps its position.                 *)
DictSet(d, k, x) ==
    IF HasKey(d, k)
    THEN PyDict([i \in 1..Len(d.v) |-> IF d.v[i][1] = k THEN <<k, x>> ELSE d.v[i]])
    ELSE PyDict(Append(d.v, <<k, x>>))

(* bool(x) *)
Truthy(x) ==
    CASE x.t = "none" -> FALSE
      [] x.t = "bool" -> x.v
      [] x.t = "num" -> x.v # 0
      [] x.t = "str" -> x.v # ""
      [] x.t = "list" -> Len(x.v) > 0
      [] x.t = "dict" -> Len(x.v) > 0
      [] OTHER -> TRUE

(* k in x, for a str k.  The strings of the input universe never contain a  *)
(* key of the wire format as a proper substring, so "k in s" for a str s is *)
(* s = k.                                                                   *)
PyIn(k, x) ==
    CASE x.t = "dict" -> Return(PyBool(HasKey(x, k)))
      [] x.t = "list" -> Return(PyBool(\E i \in 1..Len(x.v) : x.v[i] = PyStr(k)))
      [] x.t = "str" -> Return(PyBool(x.v = k))
      [] OTHER -> Raise("TypeError", "argument is not iterable")

(* x[k], for a str k *)
PyGetItem(x, k) ==
    CASE x.t = "dict" ->
           IF HasKey(x, k) THEN Return(Lookup(x, k)) ELSE Raise("KeyError", k)
      [] x.t \in {"list", "str"} -> Raise("TypeError", "indices must be integers")
      [] OTHER -> Raise("TypeError", "object is not subscriptable")

(* The elements "for e in x" visits.  The only strs the universe puts where *)
(* the code iterates are "" and one-character strings.                      *)
PyIter(x) ==
    CASE x.t = "list" -> Return(x)
      [] x.t = "dict" -> Return(PyList([i \in 1..Len(x.v) |-> PyStr(x.v[i][1])]))
      [] x.t = "str" -> Return(PyList(IF x.v = "" THEN <<>> ELSE <<x>>))
      [] OTHER -> Raise("TypeError", "object is not iterable")

(* len(x) *)
PyLen(x) ==
    CASE x.t \in {"list", "dict"} -> Return(PyNum(Len(x.v)))
      [] x.t = "str" -> Return(PyNum(IF x.v = "" THEN 0 ELSE 1))
      [] OTHER -> Raise("TypeError", "object has no len()")

-----------------------------------------------------------------------------
(* The decoder.                                                            *)

MsgNoResult == "Expected a QueryResult object with 'result' field"
MsgParse == "Failed to parse Malloy result"
MsgMissingSchema == "Result missing schema information"
MsgPandas == "pandas is required for DataFrame conversion. Install it with: pip install pandas"

MalloyResultError(m) == Raise("MalloyResultError", m)

(* The timestamp literals pandas parses. *)
TimestampLiterals == {"2024-01-15T10:30:00"}

(* pd.Timestamp accepting strs only. *)
pd_Timestamp_str_only(x) ==
    IF x.t = "str" /\ x.v \in {"2024-01-15T10:30:00"}
    THEN Return([t |-> "Timestamp", v |-> x.v])
    ELSE Raise("TypeError", "Cannot convert input")

(* pd.Timestamp(x).  The timestamp payloads of the universe are strs or     *)
(* None; a Timestamp is returned as it is.                                  *)
pd_Timestamp(x) ==
    CASE x.t = "str" ->
           IF x.v \in TimestampLiterals THEN Return(PyTimestamp(x.v))
           ELSE Raise("ValueError", "could not convert string to Timestamp")
      [] x.t = "Timestamp" -> Return(x)
      [] x.t = "none" -> Return([t |-> "NaT", v |-> "NaT"])
      [] x.t \in {"list", "dict"} -> Raise("TypeError", "Cannot convert input")

RECURSIVE extract_cell_value(_, _)
RECURSIVE extract_each(_, _)

RECURSIVE extract_each_reversed(_, _)
(* The comprehension collecting its values last first. *)
extract_each_reversed(items, p) ==
    IF items = <<>> THEN Return(PyList(<<>>))
    ELSE LET h == extract_cell_value(Head(items), p) IN
         IF ~h.ok THEN h
         ELSE LET r == extract_each_reversed(Tail(items), p) IN
              IF ~r.ok THEN r ELSE Return(PyList(r.val.v \o <<h.val>>))

(* [_extract_cell_value(item) for item in items]: the first exception ends  *)
(* the comprehension.                                                       *)
extract_each(items, p) ==
    IF items = <<>> THEN Return(PyList(<<>>))
    ELSE LET h == extract_cell_value(Head(items), p) IN
         IF ~h.ok THEN h
         ELSE LET r == extract_each(Tail(items), p) IN
              IF ~r.ok THEN r ELSE Return(PyList(<<h.val>> \o r.val.v))

(* The nested branch of _extract_cell_value for the key k. *)
extract_nested(cell, k, p) ==
    LET got == PyGetItem(cell, k) IN
    IF ~got.ok THEN got
    ELSE LET it == PyIter(got.val) IN
         IF ~it.ok THEN it ELSE extract_each(it.val.v, p)

(* The timestamp branch of _extract_cell_value, with p the value of pd.     *)
extract_timestamp(cell, p) ==
    LET got == PyGetItem(cell, "timestamp_value") IN
    IF ~got.ok THEN got
    ELSE IF p THEN pd_Timestamp(got.val) ELSE got

(* _extract_cell_value testing the keys in the order of the cell. *)
extract_cell_value_cell_order(cell, p) ==
    LET first == PyIn("string_value", cell)
        key == IF cell.t = "dict" /\ Len(cell.v) > 0 THEN cell.v[1][1] ELSE ""
    IN  IF ~first.ok THEN first
        ELSE IF key \in {"string_value", "number_value", "bool_value", "date_value"}
             THEN PyGetItem(cell, key)
        ELSE IF key = "null_value" THEN Return(PyNone)
        ELSE IF key = "timestamp_value" THEN extract_timestamp(cell, p)
        ELSE IF key \in {"array_value", "record_value"} THEN extract_nested(cell, key, p)
        ELSE Return(cell)

(* _extract_cell_value with None for a cell of no recognized key. *)
extract_cell_value_none_fallback(cell, p) ==
    LET first == PyIn("string_value", cell)
        has(k) == PyIn(k, cell).val.v
    IN  IF ~first.ok THEN first
        ELSE IF has("string_value") THEN PyGetItem(cell, "string_value")
        ELSE IF has("number_value") THEN PyGetItem(cell, "number_value")
        ELSE IF has("bool_value") THEN PyGetItem(cell, "bool_value")
        ELSE IF has("null_value") THEN Return(PyNone)
        ELSE IF has("timestamp_value") THEN extract_timestamp(cell, p)
        ELSE IF has("date_value") THEN PyGetItem(cell, "date_value")
        ELSE IF has("array_value") THEN extract_nested(cell, "array_value", p)
        ELSE IF has("record_value") THEN extract_nested(cell, "record_value", p)
        ELSE Return(PyNone)

(* _extract_cell_value returning what null_value holds. *)
extract_cell_value_null_payload(cell, p) ==
    LET first == PyIn("string_value", cell)
        has(k) == PyIn(k, cell).val.v
    IN  IF ~first.ok THEN first
        ELSE IF has("string_value") THEN PyGetItem(cell, "string_value")
        ELSE IF has("number_value") THEN PyGetItem(cell, "number_value")
        ELSE IF has("bool_value") THEN PyGetItem(cell, "bool_value")
        ELSE IF has("null_value") THEN PyGetItem(cell, "null_value")
        ELSE IF has("timestamp_value") THEN extract_timestamp(cell, p)
        ELSE IF has("date_value") THEN PyGetItem(cell, "date_value")
        ELSE IF has("array_value") THEN extract_nested(cell, "array_value", p)
        ELSE IF has("record_value") THEN extract_nested(cell, "record_value", p)
        ELSE Return(cell)

extract_cell_value(cell, p) ==
    LET first == PyIn("string_value", cell)
        has(k) == PyIn(k, cell).val.v
    IN  IF ~first.ok THEN first
        ELSE IF has("string_value") THEN PyGetItem(cell, "string_value")
        ELSE IF has("number_value") THEN PyGetItem(cell, "number_value")
        ELSE IF has("bool_value") THEN PyGetItem(cell, "bool_value")
        ELSE IF has("null_value") THEN Return(PyNone)
        ELSE IF has("timestamp_value") THEN extract_timestamp(cell, p)
        ELSE IF has("date_value") THEN PyGetItem(cell, "date_value")
        ELSE IF has("array_value") THEN extract_nested(cell, "array_value", p)
        ELSE IF has("record_value") THEN extract_nested(cell, "record_value", p)
        ELSE Return(cell)

RECURSIVE json_dumps(_)
RECURSIVE dumps_members(_, _)
RECURSIVE dumps_elements(_, _)

(* The "key": value members of a JSON object, from member i on. *)
dumps_members(pairs, i) ==
    IF i > Len(pairs) THEN <<>>
    ELSE (IF i > 1 THEN <<Punct(",")>> ELSE <<>>)
         \o <<PyStr(pairs[i][1]), Punct(":")>>
         \o json_dumps(pairs[i][2])
         \o dumps_members(pairs, i + 1)

(* The elements of a JSON array, from element i on. *)
dumps_elements(items, i) ==
    IF i > Len(items) THEN <<>>
    ELSE (IF i > 1 THEN <<Punct(",")>> ELSE <<>>)
         \o json_dumps(items[i])
         \o dumps_elements(items, i + 1)

(* json.dumps(x): the tokens of the text. *)
json_dumps(x) ==
    CASE x.t = "dict" -> <<Punct("{")>> \o dumps_members(x.v, 1) \o <<Punct("}")>>
      [] x.t = "list" -> <<Punct("[")>> \o dumps_elements(x.v, 1) \o <<Punct("]")>>
      [] x.t \in {"str", "num", "bool", "none"} -> <<x>>

(* The str json.dumps(doc) returns. *)
JsonText(doc) == [t |-> "json", v |-> json_dumps(doc)]

(* A step of the JSON decoder: the value read and the next token, or a     *)
(* syntax error.                                                            *)
Parsed(x, next) == [ok |-> TRUE, val |-> x, next |-> next]
SyntaxError == [ok |-> FALSE, val |-> PyNone, next |-> 0]
IsPunct(toks, i, c) == i <= Len(toks) /\ toks[i].t = "punct" /\ toks[i].v = c

RECURSIVE parse_value(_, _)
RECURSIVE parse_members(_, _, _)
RECURSIVE parse_elements(_, _, _)

(* The members of an object after "{" or ",", d holding those read so far;  *)
(* a repeated key keeps its last value.                                     *)
parse_members(toks, i, d) ==
    IF i > Len(toks) \/ toks[i].t # "str" \/ ~IsPunct(toks, i + 1, ":")
    THEN SyntaxError
    ELSE LET r == parse_value(toks, i + 2) IN
         IF ~r.ok THEN r
         ELSE LET d2 == DictSet(d, toks[i].v, r.val) IN
              IF IsPunct(toks, r.next, ",") THEN parse_members(toks, r.next + 1, d2)
              ELSE IF IsPunct(toks, r.next, "}") THEN Parsed(d2, r.next + 1)
              ELSE SyntaxError

(* The elements of an array after "[" or ",", items holding those read so   *)
(* far.                                                                     *)
parse_elements(toks, i, items) ==
    LET r == parse_value(toks, i) IN
    IF ~r.ok THEN r
    ELSE LET l2 == Append(items, r.val) IN
         IF IsPunct(toks, r.next, ",") THEN parse_elements(toks, r.next + 1, l2)
         ELSE IF IsPunct(toks, r.next, "]") THEN Parsed(PyList(l2), r.next + 1)
         ELSE SyntaxError

(* The JSON value that starts at token i. *)
parse_value(toks, i) ==
    IF i > Len(toks) THEN SyntaxError
    ELSE IF IsPunct(toks, i, "{")
    THEN IF IsPunct(toks, i + 1, "}") THEN Parsed(EmptyDict, i + 2)
         ELSE parse_members(toks, i + 1, EmptyDict)
    ELSE IF IsPunct(toks, i, "[")
    THEN IF IsPunct(toks, i + 1, "]") THEN Parsed(PyList(<<>>), i + 2)
         ELSE parse_elements(toks, i + 1, <<>>)
    ELSE IF toks[i].t = "punct" THEN SyntaxError
    ELSE Parsed(toks[i], i + 1)

(* json.loads(s): one JSON value and nothing after it. *)
json_loads(s) ==
    IF s.t # "json" THEN Raise("JSONDecodeError", "Expecting value")
    ELSE LET r == parse_value(s.v, 1) IN
         IF r.ok /\ r.next = Len(s.v) + 1 THEN Return(r.val)
         ELSE Raise("JSONDecodeError", "Expecting value")

(* _parse_malloy_result without the except clause. *)
parse_uncaught(result_json) ==
    IF isinstance_str(result_json) THEN json_loads(result_json)
    ELSE Return(result_json)

(* _parse_malloy_result refusing what is not a str. *)
parse_strings_only(result_json) ==
    IF isinstance_str(result_json)
    THEN LET r == json_loads(result_json) IN
         IF ~r.ok THEN MalloyResultError(MsgParse) ELSE r
    ELSE MalloyResultError(MsgParse)

parse_malloy_result(result_json) ==
    IF isinstance_str(result_json)
    THEN LET r == json_loads(result_json) IN
         IF ~r.ok /\ r.exc \in {"JSONDecodeError", "TypeError"}
         THEN MalloyResultError(MsgParse)
         ELSE r
    ELSE Return(result_json)

(* A "result" key counted as the attribute. *)
hasattr_or_key(q) == q.cls = "QueryResult" \/ HasKey(q.items, "result")

(* hasattr(query_result, "result") *)
hasattr_result(q) == q.cls = "QueryResult"

(* parsed.get(k, {}) *)
parsed_get(parsed, k) ==
    IF parsed.t # "dict" THEN Raise("AttributeError", "object has no attribute 'get'")
    ELSE IF HasKey(parsed, k) THEN Return(Lookup(parsed, k))
    ELSE Return(EmptyDict)

(* schema_missing reduced to "not schema". *)
schema_missing_falsy_only(schema) == Return(PyBool(~Truthy(schema)))

(* not schema or "fields" not in schema *)
schema_missing(schema) ==
    IF ~Truthy(schema) THEN Return(PyBool(TRUE))
    ELSE LET c == PyIn("fields", schema) IN
         IF ~c.ok THEN c ELSE Return(PyBool(~c.val.v))

(* not data or "array_value" not in data *)
data_missing(data) ==
    IF ~Truthy(data) THEN Return(PyBool(TRUE))
    ELSE LET c == PyIn("array_value", data) IN
         IF ~c.ok THEN c ELSE Return(PyBool(~c.val.v))

RECURSIVE names_each(_)
names_each(fields) ==
    IF fields = <<>> THEN Return(PyList(<<>>))
    ELSE LET h == PyGetItem(Head(fields), "name") IN
         IF ~h.ok THEN h
         ELSE LET r == names_each(Tail(fields)) IN
              IF ~r.ok THEN r ELSE Return(PyList(<<h.val>> \o r.val.v))

(* [field["name"] for field in schema["fields"]] *)
field_names_of(schema) ==
    LET fs == PyGetItem(schema, "fields") IN
    IF ~fs.ok THEN fs
    ELSE LET it == PyIter(fs.val) IN
         IF ~it.ok THEN it ELSE names_each(it.val.v)

(* row_dict.setdefault(field_name, value): the first value of a name stays. *)
row_dict_set_keep_first(row_dict, field_name, value) ==
    IF field_name.t \in {"list", "dict"}
    THEN Raise("TypeError", "unhashable type")
    ELSE IF HasKey(row_dict, field_name.v) THEN Return(row_dict)
    ELSE Return(DictSet(row_dict, field_name.v, value))

(* row_dict[field_name] = value; an unhashable field name cannot be a key, *)
(* and the names of the universe are otherwise strs.                       *)
row_dict_set(row_dict, field_name, value) ==
    IF field_name.t \in {"list", "dict"}
    THEN Raise("TypeError", "unhashable type")
    ELSE Return(DictSet(row_dict, field_name.v, value))

RECURSIVE map_cells_fill(_, _, _, _, _)
(* map_cells, except that the fields past the last cell are set to None.    *)
map_cells_fill(record, idx, field_names, p, row_dict) ==
    IF idx > Len(record)
    THEN IF idx <= Len(field_names)
         THEN map_cells_fill(record, idx + 1, field_names, p,
                             DictSet(row_dict, field_names[idx].v, PyNone))
         ELSE Return(row_dict)
    ELSE IF idx <= Len(field_names)
    THEN LET x == extract_cell_value(record[idx], p) IN
         IF ~x.ok THEN x
         ELSE LET d == row_dict_set(row_dict, field_names[idx], x.val) IN
              IF ~d.ok THEN d
              ELSE map_cells_fill(record, idx + 1, field_names, p, d.val)
    ELSE map_cells_fill(record, idx + 1, field_names, p, row_dict)

RECURSIVE map_cells(_, _, _, _, _)
(* for idx, cell in enumerate(record): from cell number idx (counted from  *)
(* 1) on.                                                                   *)
map_cells(record, idx, field_names, p, row_dict) ==
    IF idx > Len(record) THEN Return(row_dict)
    ELSE IF idx <= Len(field_names)
    THEN LET x == extract_cell_value(record[idx], p) IN
         IF ~x.ok THEN x
         ELSE LET d == row_dict_set(row_dict, field_names[idx], x.val) IN
              IF ~d.ok THEN d
              ELSE map_cells(record, idx + 1, field_names, p, d.val)
    ELSE map_cells(record, idx + 1, field_names, p, row_dict)

RECURSIVE build_rows_reversed(_, _, _, _)
(* build_rows, except that each row_dict is put in front of rows.           *)
build_rows_reversed(array_value, field_names, p, rows) ==
    IF array_value = <<>> THEN Return(PyList(rows))
    ELSE LET row_data == Head(array_value)
             c == PyIn("record_value", row_data)
         IN  IF ~c.ok THEN c
             ELSE IF ~c.val.v
             THEN build_rows_reversed(Tail(array_value), field_names, p, rows)
             ELSE LET record == PyGetItem(row_data, "record_value") IN
                  IF ~record.ok THEN record
                  ELSE LET it == PyIter(record.val) IN
                       IF ~it.ok THEN it
                       ELSE LET d == map_cells(it.val.v, 1, field_names, p, EmptyDict) IN
                            IF ~d.ok THEN d
                            ELSE build_rows_reversed(Tail(array_value), field_names, p,
                                                     <<d.val>> \o rows)

RECURSIVE build_rows_noskip(_, _, _, _)
(* build_rows, except that a row without record_value is emitted as an      *)
(* empty row_dict.                                                          *)
build_rows_noskip(array_value, field_names, p, rows) ==
    IF array_value = <<>> THEN Return(PyList(rows))
    ELSE LET row_data == Head(array_value)
             c == PyIn("record_value", row_data)
         IN  IF ~c.ok THEN c
             ELSE IF ~c.val.v
             THEN build_rows_noskip(Tail(array_value), field_names, p,
                                    Append(rows, EmptyDict))
             ELSE LET record == PyGetItem(row_data, "record_value") IN
                  IF ~record.ok THEN record
                  ELSE LET it == PyIter(record.val) IN
                       IF ~it.ok THEN it
                       ELSE LET d == map_cells(it.val.v, 1, field_names, p, EmptyDict) IN
                            IF ~d.ok THEN d
                            ELSE build_rows_noskip(Tail(array_value), field_names, p,
                                                   Append(rows, d.val))

RECURSIVE build_rows(_, _, _, _)
(* for row_data in array_value: ... rows.append(row_dict) *)
build_rows(array_value, field_names, p, rows) ==
    IF array_value = <<>> THEN Return(PyList(rows))
    ELSE LET row_data == Head(array_value)
             c == PyIn("record_value", row_data)
         IN  IF ~c.ok THEN c
             ELSE IF ~c.val.v
             THEN build_rows(Tail(array_value), field_names, p, rows)
             ELSE LET record == PyGetItem(row_data, "record_value") IN
                  IF ~record.ok THEN record
                  ELSE LET it == PyIter(record.val) IN
                       IF ~it.ok THEN it
                       ELSE LET d == map_cells(it.val.v, 1, field_names, p, EmptyDict) IN
                            IF ~d.ok THEN d
                            ELSE build_rows(Tail(array_value), field_names, p,
                                            Append(rows, d.val))

(* field_names = ...; array_value = data["array_value"]; the loop.         *)
rows_of(schema, data, p) ==
    LET names == field_names_of(schema) IN
    IF ~names.ok THEN names
    ELSE LET av == PyGetItem(data, "array_value") IN
         IF ~av.ok THEN av
         ELSE LET it == PyIter(av.val) IN
              IF ~it.ok THEN it
              ELSE build_rows(it.val.v, names.val.v, p, <<>>)

to_dict(q, p) ==
    IF ~hasattr_result(q) THEN MalloyResultError(MsgNoResult)
    ELSE
    LET parsed == parse_malloy_result(q.result) IN
    IF ~parsed.ok THEN parsed ELSE
    LET schema == parsed_get(parsed.val, "schema")
        data == parsed_get(parsed.val, "data")
    IN
    IF ~schema.ok THEN schema ELSE
    LET ms == schema_missing(schema.val) IN
    IF ~ms.ok THEN ms ELSE
    IF ms.val.v THEN MalloyResultError(MsgMissingSchema) ELSE
    LET md == data_missing(data.val) IN
    IF ~md.ok THEN md ELSE
    IF md.val.v THEN Return(PyList(<<>>)) ELSE
    rows_of(schema.val, data.val, p)

(* get_schema giving the field names, and an empty list without data. *)
get_schema_names(q) ==
    IF ~hasattr_result(q) THEN MalloyResultError(MsgNoResult)
    ELSE
    LET parsed == parse_malloy_result(q.result) IN
    IF ~parsed.ok THEN parsed ELSE
    LET schema == parsed_get(parsed.val, "schema") IN
    IF ~schema.ok THEN schema ELSE
    LET ms == schema_missing(schema.val) IN
    IF ~ms.ok THEN ms ELSE
    IF ms.val.v THEN MalloyResultError(MsgMissingSchema) ELSE
    LET data == parsed_get(parsed.val, "data") IN
    IF ~data.ok THEN data ELSE
    LET md == data_missing(data.val) IN
    IF ~md.ok THEN md ELSE
    IF md.val.v THEN Return(PyList(<<>>)) ELSE field_names_of(schema.val)

get_schema(q) ==
    IF ~hasattr_result(q) THEN MalloyResultError(MsgNoResult)
    ELSE
    LET parsed == parse_malloy_result(q.result) IN
    IF ~parsed.ok THEN parsed ELSE
    LET schema == parsed_get(parsed.val, "schema") IN
    IF ~schema.ok THEN schema ELSE
    LET ms == schema_missing(schema.val) IN
    IF ~ms.ok THEN ms ELSE
    IF ms.val.v THEN MalloyResultError(MsgMissingSchema) ELSE
    PyGetItem(schema.val, "fields")

-----------------------------------------------------------------------------
(* pandas.  A DataFrame is its column labels and its rows, each row the     *)
(* sequence of its values in column order.                                  *)

PyDataFrame(columns, data) ==
    [t |-> "DataFrame", v |-> [columns |-> columns, data |-> data]]

RECURSIVE append_new(_, _)
(* cols extended by the keys not yet in it, in order. *)
append_new(cols, keys) ==
    IF keys = <<>> THEN cols
    ELSE IF \E i \in 1..Len(cols) : cols[i] = Head(keys)
    THEN append_new(cols, Tail(keys))
    ELSE append_new(Append(cols, Head(keys)), Tail(keys))

RECURSIVE union_keys(_, _)
union_keys(rows, cols) ==
    IF rows = <<>> THEN cols
    ELSE union_keys(Tail(rows), append_new(cols, Keys(Head(rows))))

(* pd.DataFrame(rows) for a list of dicts: the columns are the keys of the  *)
(* dicts in order of first appearance, a key a dict lacks reads NaN.        *)
pd_DataFrame(rows) ==
    LET columns == union_keys(rows, <<>>) IN
    PyDataFrame(columns,
        [i \in 1..Len(rows) |->
            [j \in 1..Len(columns) |->
                IF HasKey(rows[i], columns[j])
                THEN Lookup(rows[i], columns[j]) ELSE NaN]])

(* pd.DataFrame([], columns=field_names) *)
pd_DataFrame_empty(field_names) ==
    PyDataFrame([j \in 1..Len(field_names) |-> field_names[j].v], <<>>)

(* data_empty without the len(...) == 0 test. *)
data_empty_nolen(data) == data_missing(data)

(* not data or "array_value" not in data or len(data["array_value"]) == 0 *)
data_empty(data) ==
    LET md == data_missing(data) IN
    IF ~md.ok \/ md.val.v THEN md
    ELSE LET av == PyGetItem(data, "array_value") IN
         IF ~av.ok THEN av
         ELSE LET n == PyLen(av.val) IN
              IF ~n.ok THEN n ELSE Return(PyBool(n.val.v = 0))

(* The empty-result branch of to_dataframe. *)
empty_frame(schema) ==
    LET names == field_names_of(schema) IN
    IF ~names.ok THEN names ELSE Return(pd_DataFrame_empty(names.val.v))

(* The rest of to_dataframe. *)
rows_frame(schema, data, p) ==
    LET rows == rows_of(schema, data, p) IN
    IF ~rows.ok THEN rows ELSE Return(pd_DataFrame(rows.val.v))

(* to_dataframe with the capability test moved behind the schema test.     *)
to_dataframe_late_check(q, p) ==
    IF ~hasattr_result(q) THEN MalloyResultError(MsgNoResult)
    ELSE
    LET parsed == parse_malloy_result(q.result) IN
    IF ~parsed.ok THEN parsed ELSE
    LET schema == parsed_get(parsed.val, "schema")
        data == parsed_get(parsed.val, "data")
    IN
    IF ~schema.ok THEN schema ELSE
    LET ms == schema_missing(schema.val) IN
    IF ~ms.ok THEN ms ELSE
    IF ms.val.v THEN MalloyResultError(MsgMissingSchema) ELSE
    IF ~p THEN MalloyResultError(MsgPandas) ELSE
    LET me == data_empty(data.val) IN
    IF ~me.ok THEN me ELSE
    IF me.val.v THEN empty_frame(schema.val) ELSE
    rows_frame(schema.val, data.val, p)

to_dataframe(q, p) ==
    IF ~p THEN MalloyResultError(MsgPandas) ELSE
    IF ~hasattr_result(q) THEN MalloyResultError(MsgNoResult)
    ELSE
    LET parsed == parse_malloy_result(q.result) IN
    IF ~parsed.ok THEN parsed ELSE
    LET schema == parsed_get(parsed.val, "schema")
        data == parsed_get(parsed.val, "data")
    IN
    IF ~schema.ok THEN schema ELSE
    LET ms == schema_missing(schema.val) IN
    IF ~ms.ok THEN ms ELSE
    IF ms.val.v THEN MalloyResultError(MsgMissingSchema) ELSE
    LET me == data_empty(data.val) IN
    IF ~me.ok THEN me ELSE
    IF me.val.v THEN empty_frame(schema.val) ELSE
    rows_frame(schema.val, data.val, p)

-----------------------------------------------------------------------------
(* The input universe.                                                      *)

Absent == [t |-> "absent", v |-> "absent"]

FieldNames == {"a", "b"}
Field(n) == Dict2("name", PyStr(n), "type", PyStr("string"))
(* Field lists up to renaming: the code compares names only with each      *)
(* other, so the first field is named "a".                                  *)
FieldLists ==
    {f \in UNION {[1..n -> {Field(x) : x \in FieldNames}] : n \in 0..MaxFields} :
        f = <<>> \/ f[1] = Field("a")}

TimestampCell == Dict1("timestamp_value", PyStr("2024-01-15T10:30:00"))
CellPalette ==
    << Dict1("string_value", PyStr("x")),
       TimestampCell,
       Dict1("array_value", PyList(<<TimestampCell, Dict1("number_value", PyNum(1))>>)) >>

(* The record of c cells that starts at palette entry s and cycles. *)
Record(c, s) ==
    [j \in 1..c |-> CellPalette[((s + j - 2) % Len(CellPalette)) + 1]]

Row(record) == Dict1("record_value", PyList(record))
RowNoRecord == EmptyDict
Rows ==
    {Row(Record(c, s)) : c \in 0..MaxCells, s \in 1..Len(CellPalette)}
        \cup {RowNoRecord}
(* The arrays of up to MaxRows rows in which two rows alternate: the loop   *)
(* of to_dict handles each row on its own, so a third kind of row in one    *)
(* array shows nothing that two do not.                                     *)
Arrays ==
    {[i \in 1..n |-> IF i % 2 = 1 THEN r1 ELSE r2] : r1 \in Rows, r2 \in Rows, n \in 0..MaxRows}
ShortArrays == {<<>>} \cup {<<r>> : r \in Rows}

Schema(fields) == Dict1("fields", PyList(fields))
Data(array) == Dict1("array_value", PyList(array))
SchemasMissing == {Absent, EmptyDict, PyNone, Dict1("name", PyStr("x"))}
DatasMissing == {Absent, EmptyDict, Dict1("other", PyNum(1))}
DatasAny == DatasMissing \cup {Data(a) : a \in ShortArrays} \cup {PyNum(5)}

(* The Parsed Result with the given schema and data (Absent: no such key). *)
Doc(schema, data) ==
    PyDict((IF schema = Absent THEN <<>> ELSE << <<"schema", schema>> >>)
           \o (IF data = Absent THEN <<>> ELSE << <<"data", data>> >>))

WellFormedDocs ==
    {Doc(Schema(f), Data(a)) : f \in FieldLists, a \in Arrays}
ShortDocs ==
    {Doc(Schema(f), Data(a)) : f \in FieldLists, a \in ShortArrays}
EmptyDataDocs ==
    {Doc(Schema(f), d) : f \in FieldLists, d \in DatasMissing}
NoSchemaDocs ==
    {Doc(s, d) : s \in SchemasMissing, d \in DatasAny}

(* Results of the wrong shape. *)
OneRow(cells) == Doc(Schema(<<Field("a")>>), Data(<<Row(cells)>>))
MalformedDocs ==
    { PyList(<<>>), PyNum(5), PyNone,
      Doc(Schema(<<Dict1("type", PyStr("string"))>>), Data(<<Row(<<>>)>>)),
      Doc(Schema(<<Dict1("type", PyStr("string"))>>), Absent),
      Doc(Schema(<<Field("a")>>), Data(<<PyNum(1)>>)),
      Doc(Schema(<<Field("a")>>), Data(<<PyStr("x")>>)),
      Doc(Schema(<<Field("a")>>), PyNum(5)),
      Doc(Schema(<<Field("a")>>), Dict1("array_value", PyNum(5))),
      Doc(Schema(<<Field("a")>>), Data(<<Dict1("record_value", PyNum(5))>>)),
      Doc(PyList(<<PyStr("fields")>>), Absent),
      Doc(PyNum(5), Absent),
      OneRow(<<PyNum(1)>>),
      OneRow(<<PyNone>>),
      OneRow(<<Dict1("timestamp_value", PyStr("not-a-time"))>>),
      OneRow(<<Dict1("array_value", PyNum(5))>>) }

(* Cells of every kind: one recognized key, several, none, nested.          *)
StringCell == Dict1("string_value", PyStr("x"))
NumberCell == Dict1("number_value", PyNum(1))
NullCells ==
    {Dict1("null_value", PyNone), Dict1("null_value", PyStr("x")),
     Dict1("null_value", PyNum(1))}
ScalarCells ==
    {StringCell, NumberCell, TimestampCell,
     Dict1("number_value", PyNum(0)),
     Dict1("bool_value", PyBool(FALSE)),
     Dict1("date_value", PyStr("2024-01-15"))} \cup NullCells
SeveralKeyCells ==
    {Dict2("string_value", PyStr("x"), "null_value", PyNone),
     Dict2("null_value", PyNone, "number_value", PyNum(1)),
     Dict2("timestamp_value", PyStr("2024-01-15T10:30:00"), "bool_value", PyBool(TRUE)),
     Dict2("date_value", PyStr("2024-01-15"), "timestamp_value", PyStr("2024-01-15T10:30:00")),
     Dict2("record_value", PyList(<<StringCell>>), "array_value", PyList(<<>>)),
     Dict2("record_value", PyList(<<NumberCell>>), "date_value", PyStr("2024-01-15")),
     Dict2("unknown_value", PyStr("x"), "array_value", PyList(<<StringCell, NumberCell>>))}
UnknownCells ==
    {EmptyDict, Dict1("unknown_value", PyStr("x")),
     Dict2("unknown_value", PyNum(1), "other_value", PyNone)}
NestedPayloads ==
    {<<>>, <<StringCell, Dict1("string_value", PyStr("y"))>>,
     <<NumberCell, StringCell>>,
     <<TimestampCell>>,
     <<Dict1("array_value", PyList(<<StringCell, TimestampCell>>)), NumberCell>>,
     <<Dict1("record_value", PyList(<<Dict1("null_value", PyNone), StringCell>>))>>,
     <<Dict1("unknown_value", PyStr("x")), Dict1("array_value", PyList(<<>>))>>}
NestedCells ==
    {Dict1(k, PyList(c)) : k \in {"array_value", "record_value"}, c \in NestedPayloads}
CellKinds == ScalarCells \cup SeveralKeyCells \cup UnknownCells \cup NestedCells

(* One row of one cell, of every kind, under each non-empty field list.     *)
CellDocs ==
    {Doc(Schema(f), Data(<<Row(<<c>>)>>)) : f \in FieldLists \ {<<>>}, c \in CellKinds}

(* The documents a result carries as JSON text, and those it carries as an  *)
(* already-parsed mapping.                                                  *)
TextDocs == ShortDocs \cup EmptyDataDocs \cup NoSchemaDocs \cup MalformedDocs
ParsedDocs ==
    WellFormedDocs \cup EmptyDataDocs \cup NoSchemaDocs \cup MalformedDocs \cup CellDocs

QueryResult(result) == [cls |-> "QueryResult", result |-> result, items |-> EmptyDict]
PlainDict(items) == [cls |-> "dict", result |-> PyNone, items |-> items]

(* "invalid json {", "" and a text cut off inside an object. *)
UnparsableStrings ==
    {PyStr("invalid json {"), PyStr(""),
     [t |-> "json", v |-> <<Punct("{"), PyStr("schema"), Punct(":"), Punct("{")>>]}

Inputs ==
    {QueryResult(JsonText(d)) : d \in TextDocs}
        \cup {QueryResult(d) : d \in ParsedDocs}
        \cup {QueryResult(s) : s \in UnparsableStrings}
        \cup {PlainDict(Dict1("not", PyStr("a query result"))),
              PlainDict(Dict1("result", JsonText(Doc(Schema(<<Field("a")>>), Data(<<>>)))))}

-----------------------------------------------------------------------------
(* The state machine: the module is loaded (pd is bound once), a caller     *)
(* holds a query result and calls the operations on it, in any order.       *)

NoOutcome == Return(PyNone)

(* The call sites that run the operations side by side. *)
Sites == {1, 2}
(* A call site that is in no call. *)
SiteIdle ==
    [pc |-> "idle", op |-> "none", given |-> PyNone, names |-> <<>>,
     array |-> <<>>, i |-> 1, result |-> NoOutcome, after_failure |-> FALSE]
NoSiteCalls ==
    /\ site = [s \in Sites |-> SiteIdle]
    /\ local_rows = [s \in Sites |-> <<>>]

(* The listener threads of the Slack bot's Socket Mode client. *)
Handlers == {1, 2}
(* A listener thread that has no request in hand. *)
HandlerIdle ==
    [pc |-> "idle", turn |-> 0, req |-> PyNone, conversation_id |-> PyNone,
     history |-> PyNone, success |-> FALSE, response_text |-> PyNone,
     final_history |-> PyNone, calls |-> <<>>]
(* The bot as loaded: CONVERSATION_CACHE = {} and nothing delivered. *)
BotLoaded ==
    /\ CONVERSATION_CACHE = EmptyDict
    /\ handler = [h \in Handlers |-> HandlerIdle]
    /\ delivered = 0

Init ==
    /\ pd \in BOOLEAN
    /\ query_result \in Inputs
    /\ op = "none"
    /\ outcome = NoOutcome
    /\ NoSiteCalls
    /\ BotLoaded

Call_to_dict ==
    /\ op' = "to_dict"
    /\ outcome' = to_dict(query_result, pd)
    /\ UNCHANGED <<pd, query_result>>
    /\ UNCHANGED <<site_vars, bot_vars>>

Call_to_dataframe ==
    /\ op' = "to_dataframe"
    /\ outcome' = to_dataframe(query_result, pd)
    /\ UNCHANGED <<pd, query_result>>
    /\ UNCHANGED <<site_vars, bot_vars>>

Call_get_schema ==
    /\ op' = "get_schema"
    /\ outcome' = get_schema(query_result)
    /\ UNCHANGED <<pd, query_result>>
    /\ UNCHANGED <<site_vars, bot_vars>>

Next == Call_to_dict \/ Call_to_dataframe \/ Call_get_schema

Spec == Init /\ [][Next]_vars

-----------------------------------------------------------------------------
(* The operations step by step, at two call sites that share the argument   *)
(* object and the module global pd: a call runs up to its row loop in one   *)
(* step, then handles one row of array_value per step, then returns.  The   *)
(* names of a call are local to it.                                         *)

Final(out) == [final |-> TRUE, out |-> out, names |-> <<>>, array |-> <<>>]
Loop(names, array) == [final |-> FALSE, out |-> NoOutcome, names |-> names, array |-> array]

(* field_names and array_value as the loop starts. *)
loop_entry(schema, data) ==
    LET names == field_names_of(schema) IN
    IF ~names.ok THEN Final(names)
    ELSE LET av == PyGetItem(data, "array_value") IN
         IF ~av.ok THEN Final(av)
         ELSE LET it == PyIter(av.val) IN
              IF ~it.ok THEN Final(it) ELSE Loop(names.val.v, it.val.v)

(* The operation o on q up to "rows = []": the outcome, when the call ends  *)
(* before its loop, or what the loop runs over.                             *)
before_rows(o, q, p) ==
    IF o = "get_schema" THEN Final(get_schema(q)) ELSE
    IF o = "to_dataframe" /\ ~p THEN Final(MalloyResultError(MsgPandas)) ELSE
    IF ~hasattr_result(q) THEN Final(MalloyResultError(MsgNoResult)) ELSE
    LET parsed == parse_malloy_result(q.result) IN
    IF ~parsed.ok THEN Final(parsed) ELSE
    LET schema == parsed_get(parsed.val, "schema")
        data == parsed_get(parsed.val, "data")
    IN
    IF ~schema.ok THEN Final(schema) ELSE
    LET ms == schema_missing(schema.val) IN
    IF ~ms.ok THEN Final(ms) ELSE
    IF ms.val.v THEN Final(MalloyResultError(MsgMissingSchema)) ELSE
    IF o = "to_dict"
    THEN LET md == data_missing(data.val) IN
         IF ~md.ok THEN Final(md) ELSE
         IF md.val.v THEN Final(Return(PyList(<<>>))) ELSE
         loop_entry(schema.val, data.val)
    ELSE LET me == data_empty(data.val) IN
         IF ~me.ok THEN Final(me) ELSE
         IF me.val.v THEN Final(empty_frame(schema.val)) ELSE
         loop_entry(schema.val, data.val)

(* Every call site binding rows to one list of the module. *)
rows_shared(s) == 1

(* The list that rows names in the call at site s: one made by that call.   *)
rows_local(s) == s

(* What a call returns after its loop. *)
after_rows(o, rows) ==
    IF o = "to_dataframe" THEN Return(pd_DataFrame(rows)) ELSE Return(PyList(rows))

(* The arguments the call sites share: two rows, a row that cannot be       *)
(* decoded after one that can, no schema, text that is no JSON, JSON text.  *)
TwoRows ==
    Doc(Schema(<<Field("a"), Field("b")>>),
        Data(<<Row(<<StringCell, TimestampCell>>), Row(<<NumberCell>>)>>))
SiteInputs ==
    {QueryResult(TwoRows),
     QueryResult(JsonText(TwoRows)),
     QueryResult(Doc(Schema(<<Field("a")>>), Data(<<Row(<<StringCell>>), Row(<<PyNum(1)>>)>>))),
     QueryResult(Doc(Schema(<<Field("a")>>), Data(<<RowNoRecord, Row(<<EmptyDict>>)>>))),
     QueryResult(Doc(Absent, Data(<<Row(<<StringCell>>)>>))),
     QueryResult(PyStr("invalid json {")),
     PlainDict(Dict1("not", PyStr("a query result")))}

SitesInit ==
    /\ pd \in BOOLEAN
    /\ query_result \in SiteInputs
    /\ op = "none"
    /\ outcome = NoOutcome
    /\ NoSiteCalls
    /\ BotLoaded

Failed(s) == site[s].pc = "done" /\ ~site[s].result.ok

(* Site s calls the operation o on the shared argument. *)
Enter(s, o) ==
    /\ site[s].pc \in {"idle", "done"}
    /\ LET b == before_rows(o, query_result, pd) IN
       site' = [site EXCEPT ![s] =
                   [pc |-> IF b.final THEN "done" ELSE "rows",
                    op |-> o, given |-> query_result,
                    names |-> b.names, array |-> b.array, i |-> 1,
                    result |-> b.out, after_failure |-> Failed(s)]]
    /\ local_rows' = [local_rows EXCEPT ![rows_local(s)] = <<>>]
    /\ UNCHANGED <<vars, bot_vars>>

(* One turn of "for row_data in array_value". *)
StepRow(s) ==
    /\ site[s].pc = "rows"
    /\ site[s].i <= Len(site[s].array)
    /\ LET r == build_rows(<<site[s].array[site[s].i]>>, site[s].names, pd,
                           local_rows[rows_local(s)])
       IN  IF r.ok
           THEN /\ local_rows' = [local_rows EXCEPT ![rows_local(s)] = r.val.v]
                /\ site' = [site EXCEPT ![s].i = @ + 1]
           ELSE /\ site' = [site EXCEPT ![s].pc = "done", ![s].result = r]
                /\ UNCHANGED local_rows
    /\ UNCHANGED <<vars, bot_vars>>

(* The loop is over: the call returns. *)
ReturnRows(s) ==
    /\ site[s].pc = "rows"
    /\ site[s].i > Len(site[s].array)
    /\ site' = [site EXCEPT ![s].pc = "done",
                            ![s].result = after_rows(site[s].op, local_rows[rows_local(s)])]
    /\ UNCHANGED <<local_rows, vars, bot_vars>>

SitesNext ==
    \E s \in Sites :
       \/ \E o \in {"to_dict", "to_dataframe", "get_schema"} : Enter(s, o)
       \/ StepRow(s)
       \/ ReturnRows(s)

SitesSpec == SitesInit /\ [][SitesNext]_<<vars, site_vars>>

-----------------------------------------------------------------------------
(* The Slack bot (examples/slack-bot/bot.py).  The Socket Mode client runs  *)
(* process_slack_events in its listener threads, one request per thread at  *)
(* a time; the threads share the module global CONVERSATION_CACHE.  A       *)
(* handler is followed from one access to the cache or call of the agent to *)
(* the next; everything it calls on the way is put on its list calls, in    *)
(* the order of the calls.  The Slack API, the agent and the file system    *)
(* are the environment: what they return is chosen freely.                  *)

(* web_client.auth_test()["user_id"] *)
BotUser == "UBOT"

(* A request: req.type and the fields of req.payload["event"]; a field the  *)
(* event does not carry is None, what event.get returns for it.             *)
Request(type, event_type, user, thread_ts, ts) ==
    [type |-> type, event_type |-> event_type, user |-> user,
     thread_ts |-> thread_ts, ts |-> PyStr(ts)]
Requests ==
    {Request("slash_commands", "none", "U1", PyNone, "t9"),
     Request("events_api", "reaction_added", "U1", PyNone, "t9"),
     Request("events_api", "message", "U1", PyNone, "t9"),
     Request("events_api", "app_mention", BotUser, PyNone, "t9"),
     Request("events_api", "message", BotUser, PyStr("t1"), "t9"),
     Request("events_api", "app_mention", "U1", PyNone, "t1"),
     Request("events_api", "message", "U1", PyStr("t1"), "t3"),
     Request("events_api", "app_mention", "U1", PyStr("t2"), "t2")}

(* One call made by a handler: what is called, the thread_ts argument (None *)
(* where the call has none), the text, file or history passed and what the  *)
(* call returned or raised.                                                  *)
CallOf(call, thread_ts, arg, result) ==
    [call |-> call, thread_ts |-> thread_ts, arg |-> arg, result |-> result]
chat_postMessage(thread_ts, text) == CallOf("chat_postMessage", thread_ts, text, NoOutcome)

(* The texts the agent answers with.  A str that is given by its tokens is  *)
(* tagged "json" whether or not it is well-formed JSON: the fence marks,    *)
(* the language tag and the line breaks are tokens like the punctuation.    *)
ChartJson ==
    Dict2("text", PyStr("Sales by brand"),
          "file_info", Dict2("status", PyStr("success"), "filepath", PyStr("/tmp/chart.png")))
Fenced(open, doc) ==
    [t |-> "json",
     v |-> open \o <<Punct("\n")>> \o json_dumps(doc) \o <<Punct("\n"), Punct("fence")>>]
Responses ==
    {PyStr("The top brand is A."), PyStr(""), PyStr(" "),
     JsonText(ChartJson),
     Fenced(<<Punct("fence"), Punct("json")>>, ChartJson),
     JsonText(Dict1("file_info", Dict1("status", PyStr("error")))),
     JsonText(Dict1("text", PyStr("No chart needed."))),
     JsonText(Dict1("file_info", Dict1("status", PyStr("success")))),
     JsonText(PyNum(5)),
     JsonText(PyList(<<PyNum(1)>>))}

(* d.get(k, default) *)
py_get(d, k, default) ==
    IF d.t # "dict" THEN Raise("AttributeError", "object has no attribute 'get'")
    ELSE Return(IF HasKey(d, k) THEN Lookup(d, k) ELSE default)

RECURSIVE strip_tokens(_)
(* text.strip() on the tokens of a str *)
strip_tokens(toks) ==
    LET IsSpace(tok) == tok.t = "punct" /\ tok.v \in {" ", "\n"} IN
    IF toks = <<>> THEN <<>>
    ELSE IF IsSpace(Head(toks)) THEN strip_tokens(Tail(toks))
    ELSE IF IsSpace(toks[Len(toks)]) THEN strip_tokens(SubSeq(toks, 1, Len(toks) - 1))
    ELSE toks

(* text.strip(); of the strs not given by tokens only " " has white space   *)
(* at an end.                                                                *)
str_strip(text) ==
    IF text.t = "json" THEN [text EXCEPT !.v = strip_tokens(text.v)]
    ELSE IF text = PyStr(" ") THEN PyStr("")
    ELSE text

(* _strip_markdown_json(text); the fence mark of three backquotes is the    *)
(* token "fence", the language identifier after it the token "json".        *)
strip_markdown_json(text) ==
    LET StartsWith(x, pre) == Len(x.v) >= Len(pre) /\ SubSeq(x.v, 1, Len(pre)) = pre
        Drop(x, n) == str_strip([x EXCEPT !.v = SubSeq(x.v, n + 1, Len(x.v))])
        t0 == str_strip(text)
    IN  IF t0.t # "json" THEN t0
        ELSE LET t1 == IF StartsWith(t0, <<Punct("fence"), Punct("json")>>) THEN Drop(t0, 2)
                       ELSE IF StartsWith(t0, <<Punct("fence")>>) THEN Drop(t0, 1)
                       ELSE t0
             IN  IF Len(t1.v) >= 1 /\ t1.v[Len(t1.v)] = Punct("fence")
                 THEN str_strip([t1 EXCEPT !.v = SubSeq(t1.v, 1, Len(t1.v) - 1)])
                 ELSE t1

(* Lines 222-243 with the file removed before the upload. *)
upload_chart_remove_first(thread_ts, conversation_id, comment, filepath, upload_raises, remove_raises) ==
    LET upload == CallOf("files_upload_v2", thread_ts, comment,
                         IF upload_raises THEN Raise("SlackApiError", "") ELSE NoOutcome)
        remove == CallOf("os.remove", PyNone, filepath,
                         IF remove_raises THEN Raise("OSError", "") ELSE NoOutcome)
        sorry == chat_postMessage(conversation_id,
                                  PyStr("I created a chart but failed to upload it"))
    IN  IF remove_raises THEN <<remove, sorry>>
        ELSE IF upload_raises THEN <<remove, upload, sorry>>
        ELSE <<remove, upload>>

(* Lines 222-243, once os.path.exists(filepath) returned True: the upload,  *)
(* the removal of the file after it, and the message sent when either       *)
(* raises.                                                                   *)
upload_chart(thread_ts, conversation_id, comment, filepath, upload_raises, remove_raises) ==
    LET upload == CallOf("files_upload_v2", thread_ts, comment,
                         IF upload_raises THEN Raise("SlackApiError", "") ELSE NoOutcome)
        remove == CallOf("os.remove", PyNone, filepath,
                         IF remove_raises THEN Raise("OSError", "") ELSE NoOutcome)
        sorry == chat_postMessage(conversation_id,
                                  PyStr("I created a chart but failed to upload it"))
    IN  IF upload_raises THEN <<upload, sorry>>
        ELSE IF remove_raises THEN <<upload, remove, sorry>>
        ELSE <<upload, remove>>

(* The handler from "if success:" to the cache update: the ways it can go, *)
(* each with the calls made and whether the handler gets to the cache       *)
(* update (out.ok) or an exception leaves it.  There is one way unless the  *)
(* file system and the upload are asked: os.path.exists returns either      *)
(* value, files_upload_v2 and os.remove return or raise.                    *)
respond(success, response_text, thread_ts, conversation_id) ==
    LET Through(calls) == [calls |-> calls, out |-> Return(PyNone)]
        Escapes(e) == [calls |-> <<>>, out |-> e]
    IN
    IF ~success
    THEN {Through(<<chat_postMessage(conversation_id,
                                     PyList(<<PyStr("failed: "), response_text>>))>>)}
    ELSE
    LET clean_response_text == strip_markdown_json(response_text)
        loaded == json_loads(clean_response_text)
    IN
    IF ~loaded.ok
    THEN \* except json.JSONDecodeError
         {Through(<<chat_postMessage(conversation_id,
                      IF ~Truthy(response_text) \/ str_strip(response_text) = PyStr("")
                      THEN PyStr("I'm sorry, I couldn't generate a proper response.")
                      ELSE response_text)>>)}
    ELSE
    LET response_data == loaded.val
        has_info == PyIn("file_info", response_data)
    IN
    IF ~has_info.ok THEN {Escapes(has_info)}
    ELSE
    LET status == IF has_info.val.v
                  THEN py_get(Lookup(response_data, "file_info"), "status", PyNone)
                  ELSE Return(PyNone)
    IN
    IF ~status.ok THEN {Escapes(status)}
    ELSE IF has_info.val.v /\ status.val = PyStr("success")
    THEN LET filepath == PyGetItem(Lookup(response_data, "file_info"), "filepath")
             looked(b) == CallOf("os.path.exists", PyNone, filepath.val, Return(PyBool(b)))
             comment == py_get(response_data, "text", PyStr("Here's your chart:")).val
         IN
         IF ~filepath.ok THEN {Escapes(filepath)}
         ELSE {Through(<<looked(TRUE)>> \o upload_chart(thread_ts, conversation_id, comment,
                                                       filepath.val, raises[1], raises[2])) :
                  raises \in {<<FALSE, FALSE>>, <<TRUE, FALSE>>, <<FALSE, TRUE>>}}
              \cup
              {Through(<<looked(FALSE), chat_postMessage(conversation_id,
                 PyStr("I tried to create a chart but the file was not generated successfully."))>>)}
    ELSE LET text == py_get(response_data, "text", clean_response_text) IN
         IF ~text.ok THEN {Escapes(text)}
         ELSE {Through(<<chat_postMessage(conversation_id, text.val)>>)}

BotInit ==
    /\ pd = FALSE
    /\ query_result = PlainDict(EmptyDict)
    /\ op = "none"
    /\ outcome = NoOutcome
    /\ NoSiteCalls
    /\ BotLoaded

(* Line 157 without the test for thread_ts. *)
answered_any_message(req) ==
    req.event_type \in {"app_mention", "message"}

(* Line 157: the events the bot answers. *)
answered(req) ==
    \/ req.event_type = "app_mention"
    \/ req.event_type = "message" /\ Truthy(req.thread_ts)

(* Lines 148-164 with the acknowledgement sent after the self check. *)
first_calls_ack_late(req) ==
    LET ack == CallOf("send_socket_mode_response", PyNone, PyNone, NoOutcome)
        mine == CallOf("auth_test", PyNone, PyNone, Return(PyStr(BotUser)))
    IN  IF req.type # "events_api" THEN [calls |-> <<>>, goes_on |-> FALSE]
        ELSE IF ~answered(req) THEN [calls |-> <<ack>>, goes_on |-> FALSE]
        ELSE [calls |-> <<mine, ack>>, goes_on |-> req.user # BotUser]

(* Lines 148-164: the calls up to the check for the bot's own messages,     *)
(* and whether the handler goes on after them.                              *)
first_calls(req) ==
    LET ack == CallOf("send_socket_mode_response", PyNone, PyNone, NoOutcome)
        mine == CallOf("auth_test", PyNone, PyNone, Return(PyStr(BotUser)))
    IN  IF req.type # "events_api" THEN [calls |-> <<>>, goes_on |-> FALSE]
        ELSE IF ~answered(req) THEN [calls |-> <<ack>>, goes_on |-> FALSE]
        ELSE [calls |-> <<ack, mine>>, goes_on |-> req.user # BotUser]

(* Lines 181-190 with every event starting a conversation of its own. *)
conversation_fresh(req, cache) ==
    [id |-> IF Truthy(req.thread_ts) THEN req.thread_ts ELSE req.ts, history |-> PyNone]

(* Lines 181-190: the conversation id and the history read from the cache. *)
conversation(req, cache) ==
    IF Truthy(req.thread_ts)
    THEN [id |-> req.thread_ts, history |-> py_get(cache, req.thread_ts.v, PyNone).val]
    ELSE [id |-> req.ts, history |-> PyNone]

(* Lines 272-273 with the assignment made whatever final_history is. *)
cache_update_always(cache, conversation_id, final_history) ==
    DictSet(cache, conversation_id.v, final_history)

(* Lines 272-273 and 285-286: the cache after the update. *)
cache_update(cache, conversation_id, final_history) ==
    IF Truthy(final_history) THEN DictSet(cache, conversation_id.v, final_history)
    ELSE cache

(* Lines 148-200: the request is acknowledged and, if it is to be answered, *)
(* the history is read from the cache and the thinking indicator is sent, a *)
(* failure of which is logged and passed over.                              *)
Receive(h, req) ==
    /\ handler[h].pc \in {"idle", "done", "raised"}
    /\ delivered < MaxRequests
    /\ delivered' = delivered + 1
    /\ LET first == first_calls(req)
           conv == conversation(req, CONVERSATION_CACHE)
           thinking == chat_postMessage(conv.id, PyStr("Let me explore the available data"))
       IN  handler' = [handler EXCEPT ![h] =
              IF ~first.goes_on
              THEN [HandlerIdle EXCEPT !.pc = "done", !.req = req, !.calls = first.calls]
              ELSE [HandlerIdle EXCEPT
                      !.pc = "agent", !.req = req, !.turn = delivered + 1,
                      !.conversation_id = conv.id,
                      !.history = conv.history,
                      !.calls = Append(first.calls, thinking)]]
    /\ UNCHANGED <<CONVERSATION_CACHE, vars, site_vars>>

(* Lines 203-286: the agent answers, the answer is sent, the cache is       *)
(* updated and the handler returns, unless an exception leaves it before.   *)
(* The agent returns the history it was given with the turn of this         *)
(* question added, or no history.                                           *)
Answer(h) ==
    /\ handler[h].pc = "agent"
    /\ \E success \in BOOLEAN :
       \E response_text \in IF success THEN Responses ELSE {PyStr("The top brand is A.")} :
       \E r \in respond(success, response_text,
                        handler[h].req.thread_ts, handler[h].conversation_id) :
       \E keeps \in BOOLEAN :
          LET final_history ==
                  IF keeps
                  THEN PyList(Append(IF handler[h].history = PyNone THEN <<>>
                                     ELSE handler[h].history.v,
                                     PyNum(handler[h].turn)))
                  ELSE PyList(<<>>)
              asked == CallOf("process_user_question", PyNone, handler[h].history, NoOutcome)
              set == CallOf("CONVERSATION_CACHE.__setitem__", PyNone, final_history, NoOutcome)
              returned == [handler[h] EXCEPT
                              !.success = success,
                              !.response_text = response_text,
                              !.final_history = final_history]
          IN  /\ handler' = [handler EXCEPT ![h] =
                    [returned EXCEPT
                        !.pc = IF r.out.ok THEN "done" ELSE "raised",
                        !.calls = @ \o <<asked>> \o r.calls
                                    \o (IF r.out.ok /\ Truthy(final_history)
                                        THEN <<set>> ELSE <<>>)]]
              /\ CONVERSATION_CACHE' =
                    IF r.out.ok
                    THEN cache_update(CONVERSATION_CACHE, handler[h].conversation_id,
                                      final_history)
                    ELSE CONVERSATION_CACHE
    /\ UNCHANGED <<delivered, vars, site_vars>>

BotNext ==
    \E h \in Handlers :
       \/ \E req \in Requests : Receive(h, req)
       \/ Answer(h)

BotSpec == BotInit /\ [][BotNext]_<<vars, site_vars, bot_vars>>

-----------------------------------------------------------------------------
(* Shapes of the data model, used to state the claims.                      *)

RECURSIVE IsCell(_)
(* A Cell: a mapping whose timestamp payload is a timestamp literal and     *)
(* whose nested payloads are sequences of Cells.                            *)
IsCell(c) ==
    /\ c.t = "dict"
    /\ HasKey(c, "timestamp_value") =>
          /\ Lookup(c, "timestamp_value").t = "str"
          /\ Lookup(c, "timestamp_value").v \in TimestampLiterals
    /\ \A k \in {"array_value", "record_value"} :
          HasKey(c, k) =>
             /\ Lookup(c, k).t = "list"
             /\ \A i \in 1..Len(Lookup(c, k).v) : IsCell(Lookup(c, k).v[i])

(* A Row: a mapping whose record_value, when present, is a sequence of      *)
(* Cells.                                                                   *)
IsRow(r) ==
    /\ r.t = "dict"
    /\ HasKey(r, "record_value") => IsCell(r)

IsFieldList(fs) ==
    /\ fs.t = "list"
    /\ \A i \in 1..Len(fs.v) :
          /\ fs.v[i].t = "dict"
          /\ HasKey(fs.v[i], "name")
          /\ Lookup(fs.v[i], "name").t = "str"

IsData(d) ==
    /\ d.t = "dict"
    /\ HasKey(d, "array_value") =>
          /\ Lookup(d, "array_value").t = "list"
          /\ \A i \in 1..Len(Lookup(d, "array_value").v) :
                IsRow(Lookup(d, "array_value").v[i])

(* The call's argument carries a result that is, or deserializes to, a      *)
(* mapping.                                                                 *)
HasMapping ==
    /\ hasattr_result(query_result)
    /\ \/ query_result.result.t = "dict"
       \/ /\ query_result.result.t = "json"
          /\ json_loads(query_result.result).ok
          /\ json_loads(query_result.result).val.t = "dict"

TheDoc ==
    IF query_result.result.t = "json" THEN json_loads(query_result.result).val
    ELSE query_result.result

(* A Parsed Result with schema.fields present. *)
FieldsPresent ==
    /\ HasMapping
    /\ HasKey(TheDoc, "schema")
    /\ Lookup(TheDoc, "schema").t = "dict"
    /\ HasKey(Lookup(TheDoc, "schema"), "fields")
    /\ IsFieldList(Lookup(Lookup(TheDoc, "schema"), "fields"))
    /\ HasKey(TheDoc, "data") => IsData(Lookup(TheDoc, "data"))

TheFields == Lookup(Lookup(TheDoc, "schema"), "fields").v
TheNames == [j \in 1..Len(TheFields) |-> Lookup(TheFields[j], "name").v]

(* data.array_value, empty when data or array_value is absent. *)
TheArray ==
    IF HasKey(TheDoc, "data") /\ HasKey(Lookup(TheDoc, "data"), "array_value")
    THEN Lookup(Lookup(TheDoc, "data"), "array_value").v
    ELSE <<>>

HasRecord(row) == HasKey(row, "record_value")
(* The rows of array_value that contain record_value, in order. *)
PresentRows == SelectSeq(TheArray, HasRecord)
CellsOf(row) == Lookup(row, "record_value").v

Min(a, b) == IF a < b THEN a ELSE b
UniqueNames == \A i, j \in 1..Len(TheNames) : TheNames[i] = TheNames[j] => i = j

-----------------------------------------------------------------------------
(* Claims.                                                                  *)

(* The row_dict to_dict returned for the k-th row that has record_value.    *)
Emitted(k) == outcome.val.v[k]
Decoded(cell) == extract_cell_value(cell, pd).val
Shared(row) == Min(Len(CellsOf(row)), Len(TheNames))

(* to_dict returned a list with one entry per row that has record_value.    *)
OnePerPresentRow ==
    /\ outcome.ok
    /\ outcome.val.t = "list"
    /\ Len(outcome.val.v) = Len(PresentRows)

(* C1, as stated: for a Parsed Result with schema.fields present, to_dict   *)
(* returns one mapping per row that has record_value, in the order of       *)
(* array_value, and the mapping of a row maps schema.fields[j].name to the  *)
(* decoded j-th cell for every position j in both the field list and the    *)
(* row.                                                                     *)
C1_EveryPositionMapped ==
    (op = "to_dict" /\ FieldsPresent) =>
        /\ OnePerPresentRow
        /\ \A k \in 1..Len(PresentRows) :
              \A j \in 1..Shared(PresentRows[k]) :
                 /\ HasKey(Emitted(k), TheNames[j])
                 /\ Lookup(Emitted(k), TheNames[j]) = Decoded(CellsOf(PresentRows[k])[j])

(* C1, amended: ... maps schema.fields[j].name to the decoded j-th cell for *)
(* every position j in both the field list and the row that no later such   *)
(* position shares its name with.                                           *)
C1_LastPositionMapped ==
    (op = "to_dict" /\ FieldsPresent) =>
        /\ OnePerPresentRow
        /\ \A k \in 1..Len(PresentRows) :
              \A j \in 1..Shared(PresentRows[k]) :
                 /\ HasKey(Emitted(k), TheNames[j])
                 /\ (\A i \in (j + 1)..Shared(PresentRows[k]) : TheNames[i] # TheNames[j])
                       => Lookup(Emitted(k), TheNames[j])
                             = Decoded(CellsOf(PresentRows[k])[j])

(* Two different rows were decoded against two fields, two cells each.      *)
C1_Witness ==
    /\ op = "to_dict"
    /\ FieldsPresent
    /\ Len(TheNames) = 2
    /\ Len(PresentRows) = 2
    /\ PresentRows[1] # PresentRows[2]
    /\ \A k \in 1..2 : Len(CellsOf(PresentRows[k])) = 2
    /\ OnePerPresentRow

(* C2: for a Parsed Result with schema.fields present, to_dict returns as   *)
(* many mappings as array_value has rows with record_value: a row without   *)
(* it is skipped, not an error and not an empty mapping, and a row whose    *)
(* record_value is empty is emitted as an empty mapping.                    *)
C2_LengthCountsPresentRows ==
    (op = "to_dict" /\ FieldsPresent) =>
        /\ OnePerPresentRow
        /\ Len(outcome.val.v) = Cardinality({i \in 1..Len(TheArray) : HasRecord(TheArray[i])})
        /\ \A k \in 1..Len(PresentRows) :
              CellsOf(PresentRows[k]) = <<>> => Emitted(k) = EmptyDict

(* A row without record_value was skipped and a row with an empty           *)
(* record_value emitted.                                                    *)
C2_Witness ==
    /\ op = "to_dict"
    /\ FieldsPresent
    /\ Len(TheNames) > 0
    /\ Len(TheArray) = 2
    /\ ~HasRecord(TheArray[1])
    /\ HasRecord(TheArray[2])
    /\ CellsOf(TheArray[2]) = <<>>
    /\ outcome = Return(PyList(<<EmptyDict>>))

KeySet(d) == {d.v[i][1] : i \in 1..Len(d.v)}

(* C3: with uniquely named fields, the keys of the mapping of a row are     *)
(* exactly the names of the first min(c, f) fields: trailing fields of a    *)
(* short row are absent, the extra cells of a long row add no key.          *)
C3_KeysAreFirstMinNames ==
    (op = "to_dict" /\ FieldsPresent /\ UniqueNames) =>
        /\ OnePerPresentRow
        /\ \A k \in 1..Len(PresentRows) :
              /\ KeySet(Emitted(k)) = {TheNames[j] : j \in 1..Shared(PresentRows[k])}
              /\ Len(Emitted(k).v) = Shared(PresentRows[k])

(* One row was shorter and one row longer than the field list.              *)
C3_Witness ==
    /\ op = "to_dict"
    /\ FieldsPresent
    /\ UniqueNames
    /\ Len(PresentRows) = 2
    /\ Len(CellsOf(PresentRows[1])) < Len(TheNames)
    /\ Len(CellsOf(PresentRows[2])) > Len(TheNames)
    /\ OnePerPresentRow

(* The Parsed Result has no schema, or a schema without fields. *)
SchemaAbsent ==
    /\ HasMapping
    /\ \/ ~HasKey(TheDoc, "schema")
       \/ Lookup(TheDoc, "schema").t = "none"
       \/ /\ Lookup(TheDoc, "schema").t = "dict"
          /\ ~HasKey(Lookup(TheDoc, "schema"), "fields")

Called == op # "none"
(* The tabular capability is there if the call needs it. *)
Capable == op = "to_dataframe" => pd

(* C4: when schema or schema.fields is absent, to_dict, get_schema and      *)
(* to_dataframe (capability available) raise MalloyResultError with the     *)
(* missing-schema message, whatever data holds.                             *)
C4_MissingSchemaRaised ==
    (Called /\ Capable /\ SchemaAbsent) =>
        outcome = MalloyResultError(MsgMissingSchema)

(* to_dataframe met a result without schema whose data holds a row.         *)
C4_Witness ==
    /\ op = "to_dataframe"
    /\ pd
    /\ SchemaAbsent
    /\ ~HasKey(TheDoc, "schema")
    /\ Len(TheArray) > 0
    /\ outcome = MalloyResultError(MsgMissingSchema)

(* C5, as stated: every call of to_dict, to_dataframe or get_schema, on any *)
(* input, returns a result or raises MalloyResultError; no other exception  *)
(* escapes.                                                                 *)
C5_OnlyDecodingErrors ==
    Called => (outcome.ok \/ outcome.exc = "MalloyResultError")

(* C6, as stated: whenever to_dataframe returns a table for a Parsed Result *)
(* with schema.fields present, its columns are exactly the schema field     *)
(* names in schema order, whatever the shape of data.                       *)
C6_ColumnsAreFieldNames ==
    (op = "to_dataframe" /\ FieldsPresent /\ outcome.ok) =>
        /\ outcome.val.t = "DataFrame"
        /\ outcome.val.v.columns = TheNames

(* C7: with schema.fields present and data absent, empty, without           *)
(* array_value or with an empty array_value, to_dict returns an empty       *)
(* sequence and to_dataframe a table of zero rows whose columns are the     *)
(* schema field names in schema order.                                      *)
C7_EmptyResult ==
    (Called /\ Capable /\ FieldsPresent /\ TheArray = <<>>) =>
        /\ op = "to_dict" => outcome = Return(PyList(<<>>))
        /\ op = "to_dataframe" => outcome = Return(PyDataFrame(TheNames, <<>>))

(* to_dataframe met two fields and an array_value that is present and      *)
(* empty.                                                                   *)
C7_Witness ==
    /\ op = "to_dataframe"
    /\ pd
    /\ FieldsPresent
    /\ Len(TheNames) = 2
    /\ HasKey(TheDoc, "data")
    /\ HasKey(Lookup(TheDoc, "data"), "array_value")
    /\ TheArray = <<>>
    /\ outcome.ok

(* The result attribute is a string that cannot be deserialized. *)
Unparsable ==
    /\ hasattr_result(query_result)
    /\ isinstance_str(query_result.result)
    /\ ~json_loads(query_result.result).ok

(* C8, as stated: when the result attribute is a string that cannot be      *)
(* deserialized, each of to_dict, to_dataframe and get_schema raises        *)
(* MalloyResultError reporting the parse error.                             *)
C8_ParseErrorFromEveryOperation ==
    (Called /\ Unparsable) => outcome = MalloyResultError(MsgParse)

(* C8, amended: ... each of to_dict, get_schema and to_dataframe with the   *)
(* capability available raises MalloyResultError reporting the parse error; *)
(* to_dataframe without the capability raises MalloyResultError with the    *)
(* pandas guidance; no other exception reaches the caller.                  *)
C8_ParseErrorWhenCapable ==
    (Called /\ Unparsable) =>
        /\ Capable => outcome = MalloyResultError(MsgParse)
        /\ ~Capable => outcome = MalloyResultError(MsgPandas)

(* to_dataframe, capability available, met an unparsable string.            *)
C8_Witness ==
    /\ op = "to_dataframe"
    /\ pd
    /\ Unparsable
    /\ outcome = MalloyResultError(MsgParse)

(* C9: without the tabular capability to_dataframe raises MalloyResultError *)
(* with the pandas guidance for every input, ahead of the invalid-shape,    *)
(* malformed-input and missing-schema errors.                               *)
C9_CapabilityFirst ==
    (op = "to_dataframe" /\ ~pd) => outcome = MalloyResultError(MsgPandas)

(* to_dataframe, capability unavailable, met an input to_dict rejects as    *)
(* unparsable.                                                              *)
C9_Witness ==
    /\ op = "to_dataframe"
    /\ ~pd
    /\ Unparsable
    /\ to_dict(query_result, pd) = MalloyResultError(MsgParse)
    /\ outcome = MalloyResultError(MsgPandas)

(* C10, as stated: the outcome of to_dict on an input is the same with the  *)
(* tabular capability available and unavailable (get_schema never reads     *)
(* the capability).                                                         *)
C10_SameWithoutCapability ==
    op = "to_dict" => outcome = to_dict(query_result, ~pd)

(* The keys of the wire format, in the order _extract_cell_value tests      *)
(* them.                                                                    *)
RecognizedKeys ==
    <<"string_value", "number_value", "bool_value", "null_value",
      "timestamp_value", "date_value", "array_value", "record_value">>
Recognized(cell) == {i \in 1..Len(RecognizedKeys) : HasKey(cell, RecognizedKeys[i])}
(* The recognized key of a cell that comes first in that order. *)
EarliestKey(cell) ==
    RecognizedKeys[CHOOSE i \in Recognized(cell) : \A j \in Recognized(cell) : i <= j]

(* The positions of the k-th emitted row that a cell was decoded for.       *)
Positions(k) == 1..Shared(PresentRows[k])
CellAt(k, j) == CellsOf(PresentRows[k])[j]
ValueAt(k, j) == Lookup(Emitted(k), TheNames[j])
(* No later position of the row carries the name of position j. *)
LastOfName(k, j) == \A i \in (j + 1)..Shared(PresentRows[k]) : TheNames[i] # TheNames[j]

(* C11, as stated: in the output of to_dict a cell {timestamp_value: t} is  *)
(* left as the raw literal: the value stored under the field name of the    *)
(* cell is t itself, not a native timestamp.                                *)
C11_TimestampLeftRaw ==
    (op = "to_dict" /\ FieldsPresent) =>
        /\ OnePerPresentRow
        /\ \A k \in 1..Len(PresentRows) :
              \A j \in Positions(k) :
                 (Keys(CellAt(k, j)) = <<"timestamp_value">> /\ LastOfName(k, j))
                    => ValueAt(k, j) = Lookup(CellAt(k, j), "timestamp_value")

(* C12: _extract_cell_value dispatches on the first recognized key in the   *)
(* order string_value, number_value, bool_value, null_value,                *)
(* timestamp_value, date_value, array_value, record_value: a cell carrying  *)
(* several recognized keys decodes to what the earliest of them alone       *)
(* decodes to, and its other keys have no effect.                           *)
C12_EarliestKeyDecides ==
    (op = "to_dict" /\ FieldsPresent) =>
        /\ OnePerPresentRow
        /\ \A k \in 1..Len(PresentRows) :
              \A j \in Positions(k) :
                 (Recognized(CellAt(k, j)) # {} /\ LastOfName(k, j)) =>
                    LET key == EarliestKey(CellAt(k, j)) IN
                    ValueAt(k, j) = Decoded(Dict1(key, Lookup(CellAt(k, j), key)))

(* A cell with null_value first and number_value second decoded to the      *)
(* number.                                                                  *)
C12_Witness ==
    /\ op = "to_dict"
    /\ FieldsPresent
    /\ Len(PresentRows) = 1
    /\ Len(CellsOf(PresentRows[1])) = 1
    /\ Keys(CellAt(1, 1)) = <<"null_value", "number_value">>
    /\ outcome = Return(PyList(<<Dict1(TheNames[1], PyNum(1))>>))

NamesSet(k) == {TheNames[j] : j \in Positions(k)}

IsNested(cell) ==
    Recognized(cell) # {} /\ EarliestKey(cell) \in {"array_value", "record_value"}
NestedOf(cell) == Lookup(cell, EarliestKey(cell)).v

RECURSIVE DecodedElementwise(_, _)
(* x is, at every depth, the plain sequence of the decoded nested cells.    *)
DecodedElementwise(cell, x) ==
    IsNested(cell) =>
        /\ x.t = "list"
        /\ Len(x.v) = Len(NestedOf(cell))
        /\ \A i \in 1..Len(x.v) :
              /\ x.v[i] = Decoded(NestedOf(cell)[i])
              /\ DecodedElementwise(NestedOf(cell)[i], x.v[i])

(* C15: an array_value cell decodes, at every nesting depth, to a plain     *)
(* sequence of the length and order of its nested cells, each element the   *)
(* decoded nested cell; a record_value cell decodes to the same sequence as *)
(* the array_value cell of the same nested cells.                           *)
C15_NestedDecodedInOrder ==
    (op = "to_dict" /\ FieldsPresent) =>
        /\ OnePerPresentRow
        /\ \A k \in 1..Len(PresentRows) :
              \A j \in Positions(k) :
                 (IsNested(CellAt(k, j)) /\ LastOfName(k, j)) =>
                    /\ DecodedElementwise(CellAt(k, j), ValueAt(k, j))
                    /\ extract_cell_value(Dict1("record_value", PyList(NestedOf(CellAt(k, j)))), pd)
                          = extract_cell_value(Dict1("array_value", PyList(NestedOf(CellAt(k, j)))), pd)
                    /\ ValueAt(k, j) = Decoded(Dict1("array_value", PyList(NestedOf(CellAt(k, j)))))

(* A record_value cell holding an array of two different cells and a number *)
(* was decoded.                                                             *)
C15_Witness ==
    /\ op = "to_dict"
    /\ ~pd
    /\ FieldsPresent
    /\ Len(PresentRows) = 1
    /\ CellsOf(PresentRows[1]) =
          <<Dict1("record_value",
                  PyList(<<Dict1("array_value", PyList(<<StringCell, TimestampCell>>)),
                           NumberCell>>))>>
    /\ outcome = Return(PyList(<<Dict1(TheNames[1],
                     PyList(<<PyList(<<PyStr("x"), PyStr("2024-01-15T10:30:00")>>),
                              PyNum(1)>>))>>))

(* The cell has exactly one recognized key. *)
OneTag(cell) == Cardinality(Recognized(cell)) = 1
(* The decoded value of a cell wrapped again under the key of the cell.     *)
Rewrapped(cell) == Dict1(EarliestKey(cell), Decoded(cell))
(* A value _extract_cell_value hands back as it is: a str that is no        *)
(* recognized key, a list holding no such str, a mapping without a          *)
(* recognized key.                                                          *)
PassedThrough(x) ==
    \/ x.t = "str" /\ \A i \in 1..Len(RecognizedKeys) : x.v # RecognizedKeys[i]
    \/ x.t = "list" /\ \A i \in 1..Len(RecognizedKeys) :
                          \A n \in 1..Len(x.v) : x.v[n] # PyStr(RecognizedKeys[i])
    \/ x.t = "dict" /\ Recognized(x) = {}

(* C16, as stated: decoding is idempotent on cells with exactly one         *)
(* recognized key: wrapping the decoded value of the cell under the key of  *)
(* the cell and decoding again yields the decoded value, for array_value    *)
(* and record_value cells too.                                              *)
C16_RewrapIdempotent ==
    (op = "to_dict" /\ FieldsPresent) =>
        \A k \in 1..Len(PresentRows) :
           \A j \in Positions(k) :
              OneTag(CellAt(k, j)) =>
                 extract_cell_value(Rewrapped(CellAt(k, j)), pd) = Return(Decoded(CellAt(k, j)))

(* C16, amended: ... yields the decoded value for the scalar keys, and for  *)
(* array_value and record_value when every element of the decoded sequence  *)
(* is a str, a sequence or a mapping without recognized key; when an        *)
(* element is a number, a boolean, None or a native timestamp, decoding the *)
(* re-wrapped sequence raises TypeError.                                    *)
C16_RewrapIdempotentOnCells ==
    (op = "to_dict" /\ FieldsPresent) =>
        \A k \in 1..Len(PresentRows) :
           \A j \in Positions(k) :
              OneTag(CellAt(k, j)) =>
                 LET v == Decoded(CellAt(k, j))
                     again == extract_cell_value(Rewrapped(CellAt(k, j)), pd)
                 IN  IF IsNested(CellAt(k, j))
                        /\ \E n \in 1..Len(v.v) : ~PassedThrough(v.v[n])
                     THEN ~again.ok /\ again.exc = "TypeError"
                     ELSE again = Return(v)

(* An array_value cell of two strings was decoded, and its decoded sequence *)
(* wrapped again decodes to the same sequence.                              *)
C16_Witness ==
    /\ op = "to_dict"
    /\ FieldsPresent
    /\ Len(PresentRows) = 1
    /\ CellsOf(PresentRows[1]) =
          <<Dict1("array_value", PyList(<<StringCell, Dict1("string_value", PyStr("y"))>>))>>
    /\ outcome = Return(PyList(<<Dict1(TheNames[1], PyList(<<PyStr("x"), PyStr("y")>>))>>))
    /\ extract_cell_value(Rewrapped(CellAt(1, 1)), pd) = Return(PyList(<<PyStr("x"), PyStr("y")>>))

(* The positions of the fields named n, all of them and those the k-th      *)
(* emitted row has a cell for.                                              *)
FieldsNamed(n) == {j \in 1..Len(TheNames) : TheNames[j] = n}
CellsNamed(k, n) == {j \in Positions(k) : TheNames[j] = n}
Highest(S) == CHOOSE j \in S : \A i \in S : i <= j
TimesKey(d, n) == Cardinality({i \in 1..Len(d.v) : d.v[i][1] = n})

(* C17, as stated: when two or more fields share a name, the row mapping of *)
(* a row contains the name once, with the decoded cell at the highest       *)
(* position within the row among the fields of that name, and the mapping   *)
(* has fewer keys than min(cells, fields).                                  *)
C17_SharedNameOnceFewerKeys ==
    (op = "to_dict" /\ FieldsPresent) =>
        /\ OnePerPresentRow
        /\ \A k \in 1..Len(PresentRows) :
              \A j \in 1..Len(TheNames) :
                 Cardinality(FieldsNamed(TheNames[j])) >= 2 =>
                    /\ TimesKey(Emitted(k), TheNames[j]) = 1
                    /\ CellsNamed(k, TheNames[j]) # {}
                    /\ Lookup(Emitted(k), TheNames[j])
                          = Decoded(CellAt(k, Highest(CellsNamed(k, TheNames[j]))))
                    /\ Len(Emitted(k).v) < Shared(PresentRows[k])

(* C17, amended: when two or more fields that share a name lie within the   *)
(* length of the row, the row mapping contains the name once, with the      *)
(* decoded cell at the highest such position, and has fewer keys than       *)
(* min(cells, fields); when one such field lies within the row the name is  *)
(* a key for its cell, when none does the name is no key; the mapping has   *)
(* one key per distinct name among the first min(cells, fields) fields.     *)
C17_SharedNameWithinRow ==
    (op = "to_dict" /\ FieldsPresent) =>
        /\ OnePerPresentRow
        /\ \A k \in 1..Len(PresentRows) :
              /\ Len(Emitted(k).v) = Cardinality(NamesSet(k))
              /\ \A j \in 1..Len(TheNames) :
                    Cardinality(FieldsNamed(TheNames[j])) >= 2 =>
                       LET within == CellsNamed(k, TheNames[j]) IN
                       /\ within = {} => ~HasKey(Emitted(k), TheNames[j])
                       /\ within # {} =>
                             /\ TimesKey(Emitted(k), TheNames[j]) = 1
                             /\ Lookup(Emitted(k), TheNames[j])
                                   = Decoded(CellAt(k, Highest(within)))
                       /\ Cardinality(within) >= 2 =>
                             Len(Emitted(k).v) < Shared(PresentRows[k])

(* Two fields named a met a row of two different cells: the mapping holds   *)
(* the second cell only.                                                    *)
C17_Witness ==
    /\ op = "to_dict"
    /\ FieldsPresent
    /\ TheNames = <<"a", "a">>
    /\ Len(PresentRows) >= 1
    /\ Len(CellsOf(PresentRows[1])) = 2
    /\ Decoded(CellAt(1, 1)) # Decoded(CellAt(1, 2))
    /\ Emitted(1) = Dict1("a", Decoded(CellAt(1, 2)))

(* The Parsed Result has a schema mapping with the key fields. *)
SchemaFieldsPresent ==
    /\ HasMapping
    /\ HasKey(TheDoc, "schema")
    /\ Lookup(TheDoc, "schema").t = "dict"
    /\ HasKey(Lookup(TheDoc, "schema"), "fields")
(* The Parsed Result without its data. *)
WithoutData(doc) == PyDict(SelectSeq(doc.v, LAMBDA kv : kv[1] # "data"))

(* C18: whenever schema.fields is present, get_schema returns the           *)
(* schema.fields sequence as it is, the same whether data is absent, empty, *)
(* or holds rows without record_value or of mismatched lengths.             *)
C18_SchemaFieldsAsIs ==
    (op = "get_schema" /\ SchemaFieldsPresent) =>
        /\ outcome = Return(Lookup(Lookup(TheDoc, "schema"), "fields"))
        /\ outcome = get_schema(QueryResult(WithoutData(TheDoc)))

(* get_schema met two fields and a data whose rows are one without          *)
(* record_value and one of a single cell.                                   *)
C18_Witness ==
    /\ op = "get_schema"
    /\ FieldsPresent
    /\ TheNames = <<"a", "b">>
    /\ Len(TheArray) = 2
    /\ ~HasRecord(TheArray[1])
    /\ HasRecord(TheArray[2])
    /\ Len(CellsOf(TheArray[2])) = 1
    /\ outcome = Return(PyList(<<Field("a"), Field("b")>>))

(* C19: a value without a result attribute, a plain mapping with a "result" *)
(* key included, makes to_dict, get_schema and to_dataframe (capability     *)
(* available) raise MalloyResultError with the message that a QueryResult   *)
(* is expected, before anything is parsed or looked up.                     *)
C19_NoResultAttribute ==
    (Called /\ Capable /\ query_result.cls = "dict") =>
        outcome = MalloyResultError(MsgNoResult)

(* to_dataframe, capability available, met a plain mapping that has a       *)
(* "result" key.                                                            *)
C19_Witness ==
    /\ op = "to_dataframe"
    /\ pd
    /\ query_result.cls = "dict"
    /\ HasKey(query_result.items, "result")
    /\ outcome = MalloyResultError(MsgNoResult)

(* The outcome of the operation o on q with p the value of pd. *)
Apply(o, q, p) ==
    CASE o = "to_dict" -> to_dict(q, p)
      [] o = "to_dataframe" -> to_dataframe(q, p)
      [] o = "get_schema" -> get_schema(q)

(* C20: the parser passes a mapping through unchanged: each of the three    *)
(* operations gives the same outcome for a QueryResult whose result is a    *)
(* mapping M as for one whose result is the JSON text json.dumps gives for  *)
(* M.                                                                       *)
C20_MappingAsItsJsonText ==
    (Called /\ query_result.cls = "QueryResult" /\ query_result.result.t = "dict") =>
        /\ parse_malloy_result(query_result.result) = Return(query_result.result)
        /\ parse_malloy_result(JsonText(query_result.result)) = Return(query_result.result)
        /\ outcome = Apply(op, QueryResult(JsonText(query_result.result)), pd)

(* to_dataframe, capability available, built a table from a mapping whose   *)
(* row holds a nested cell, the table it builds from the text of the        *)
(* mapping.                                                                 *)
C20_Witness ==
    /\ op = "to_dataframe"
    /\ pd
    /\ query_result.cls = "QueryResult"
    /\ query_result.result.t = "dict"
    /\ FieldsPresent
    /\ Len(PresentRows) = 1
    /\ Len(CellsOf(PresentRows[1])) = 1
    /\ IsNested(CellAt(1, 1))
    /\ Len(NestedOf(CellAt(1, 1))) = 2
    /\ outcome.ok
    /\ outcome.val.t = "DataFrame"
    /\ outcome = to_dataframe(QueryResult(JsonText(query_result.result)), pd)

(* C21: the operations hold no shared state: called side by side from two   *)
(* call sites, in any interleaving of their steps, each call returns what   *)
(* the operation returns when run alone on its argument, the argument is    *)
(* what it was when the call was given it, and a call that follows a failed *)
(* call is no exception.                                                    *)
C21_CallsIndependent ==
    \A s \in Sites :
       /\ site[s].pc # "idle" => query_result = site[s].given
       /\ site[s].pc = "done" => site[s].result = Apply(site[s].op, site[s].given, pd)

(* A call that followed a failed call at its site returned two rows while   *)
(* the other site was inside its loop.                                      *)
C21_Witness ==
    /\ site[1].pc = "done"
    /\ site[1].after_failure
    /\ site[1].op = "to_dict"
    /\ site[1].result.ok
    /\ Len(site[1].result.val.v) = 2
    /\ site[2].pc = "rows"
    /\ site[2].i = 2
    /\ site[2].op = "to_dict"

-----------------------------------------------------------------------------
(* The Slack bot.                                                           *)

(* The calls of handler h to the function or method named name, in order. *)
CallsTo(h, name) == SelectSeq(handler[h].calls, LAMBDA c : c.call = name)
(* CONVERSATION_CACHE.get(k) *)
Stored(k) == IF HasKey(CONVERSATION_CACHE, k) THEN Lookup(CONVERSATION_CACHE, k) ELSE PyNone

(* C22: when a handler takes up an event that is to be answered, the        *)
(* history it will pass to the agent is what CONVERSATION_CACHE holds under  *)
(* the event's thread_ts at that moment (None if it holds nothing) and the   *)
(* conversation id is thread_ts; for an event without thread_ts the history  *)
(* is None and the conversation id the event's ts.  The agent is then called *)
(* once, with that history.                                                  *)
C22_HistoryFromCache ==
    [][\A h \in Handlers :
          /\ (handler[h].pc # "agent" /\ handler'[h].pc = "agent") =>
                LET e == handler'[h].req IN
                IF e.thread_ts # PyNone
                THEN /\ handler'[h].conversation_id = e.thread_ts
                     /\ handler'[h].history = Stored(e.thread_ts.v)
                ELSE /\ handler'[h].conversation_id = e.ts
                     /\ handler'[h].history = PyNone
          /\ (handler[h].pc = "agent" /\ handler'[h].pc # "agent") =>
                LET asked == SelectSeq(handler'[h].calls,
                                       LAMBDA c : c.call = "process_user_question")
                IN  Len(asked) = 1 /\ asked[1].arg = handler[h].history
      ]_bot_vars

(* A handler answered an event of thread t1 after an earlier turn had       *)
(* stored a history there: the agent was called with the stored history.    *)
C22_Witness ==
    \E h \in Handlers :
       /\ handler[h].pc = "done"
       /\ handler[h].req.thread_ts = PyStr("t1")
       /\ Len(CallsTo(h, "process_user_question")) = 1
       /\ CallsTo(h, "process_user_question")[1].arg = PyList(<<PyNum(1)>>)

(* C23: the step in which a handler returns sets the entry of its           *)
(* conversation id to the final_history of the agent if that is not empty,  *)
(* whether the agent reported success or failure, and leaves the entry as   *)
(* it is if final_history is empty; the entries of all other conversation   *)
(* ids are left as they are.                                                 *)
C23_CacheUpdateRule ==
    [][\A h \in Handlers :
          (handler[h].pc = "agent" /\ handler'[h].pc = "done") =>
             \A k \in {r.ts.v : r \in Requests} :
                Stored(k)' = IF /\ k = handler'[h].conversation_id.v
                                /\ handler'[h].final_history # PyList(<<>>)
                             THEN handler'[h].final_history
                             ELSE Stored(k)
      ]_bot_vars

(* A handler whose agent reported failure stored the history of its turn,   *)
(* and a handler of the same conversation that got no history back left     *)
(* the entry alone.                                                          *)
C23_Witness ==
    \E h, g \in Handlers :
       /\ handler[h].pc = "done" /\ ~handler[h].success
       /\ handler[h].final_history # PyList(<<>>)
       /\ Stored(handler[h].conversation_id.v) = handler[h].final_history
       /\ handler[g].pc = "done" /\ handler[g].success /\ handler[g].turn > handler[h].turn
       /\ handler[g].conversation_id = handler[h].conversation_id
       /\ handler[g].final_history = PyList(<<>>)

(* C24: a handler that took a request of type events_api has sent the       *)
(* acknowledgement as the first of its calls and has sent it once; a        *)
(* handler that took a request of another type has returned and has called  *)
(* nothing: no acknowledgement, no agent, no message, no cache update.      *)
C24_AcknowledgedFirstOnce ==
    \A h \in Handlers :
       handler[h].pc # "idle" =>
          IF handler[h].req.type = "events_api"
          THEN /\ Len(handler[h].calls) >= 1
               /\ handler[h].calls[1].call = "send_socket_mode_response"
               /\ Len(CallsTo(h, "send_socket_mode_response")) = 1
          ELSE /\ handler[h].calls = <<>>
               /\ handler[h].pc = "done"

(* One handler answered an event and updated the cache, its first call was  *)
(* the acknowledgement; the other returned from a request of another type.  *)
C24_Witness ==
    \E h, g \in Handlers :
       /\ handler[h].pc = "done"
       /\ Len(CallsTo(h, "CONVERSATION_CACHE.__setitem__")) = 1
       /\ handler[h].calls[1].call = "send_socket_mode_response"
       /\ handler[g].pc = "done" /\ handler[g].req.type = "slash_commands"

(* C25: a handler that takes an events_api event which is neither an        *)
(* app_mention nor a message with thread_ts, or whose user is the bot       *)
(* itself, returns in that step having sent the acknowledgement and nothing *)
(* else (it may have asked Slack for the bot's user id): no agent call, no  *)
(* message, no file, and CONVERSATION_CACHE as it was.                      *)
C25_IgnoredEventsOnlyAcknowledged ==
    [][\A h \in Handlers :
          LET e == handler'[h].req
              ignored ==
                 /\ e.type = "events_api"
                 /\ \/ ~ \/ e.event_type = "app_mention"
                         \/ e.event_type = "message" /\ e.thread_ts # PyNone
                    \/ e.user = BotUser
          IN  (handler'[h] # handler[h] /\ ignored) =>
                 /\ handler'[h].pc = "done"
                 /\ Len(SelectSeq(handler'[h].calls,
                           LAMBDA c : c.call = "send_socket_mode_response")) = 1
                 /\ \A i \in 1..Len(handler'[h].calls) :
                       handler'[h].calls[i].call \in {"send_socket_mode_response", "auth_test"}
                 /\ CONVERSATION_CACHE' = CONVERSATION_CACHE
      ]_bot_vars

(* The bot's own message in thread t1, a thread with a stored history, was  *)
(* taken and dropped after the self check.                                   *)
C25_Witness ==
    \E h \in Handlers :
       /\ handler[h].pc = "done"
       /\ handler[h].req.user = BotUser /\ handler[h].req.thread_ts = PyStr("t1")
       /\ Len(handler[h].calls) = 2
       /\ Stored("t1") # PyNone

(* The response text, its code fence stripped, is a JSON object whose       *)
(* file_info.status is "success", and os.path.exists was asked about        *)
(* file_info.filepath and returned b.                                        *)
ChartAt(h, b) ==
    LET d == json_loads(strip_markdown_json(handler[h].response_text))
        looked == CallsTo(h, "os.path.exists")
    IN  /\ d.ok /\ d.val.t = "dict"
        /\ HasKey(d.val, "file_info") /\ Lookup(d.val, "file_info").t = "dict"
        /\ HasKey(Lookup(d.val, "file_info"), "status")
        /\ Lookup(Lookup(d.val, "file_info"), "status") = PyStr("success")
        /\ HasKey(Lookup(d.val, "file_info"), "filepath")
        /\ Len(looked) = 1
        /\ looked[1].arg = Lookup(Lookup(d.val, "file_info"), "filepath")
        /\ looked[1].result = Return(PyBool(b))

(* C26: a handler that has answered uploaded a file only if the agent       *)
(* reported success, the stripped response is a JSON object with            *)
(* file_info.status "success" and the file exists; it then called the       *)
(* upload exactly once, and os.remove only after an upload that returned.   *)
(* After an upload that raised there is no os.remove and the message about  *)
(* the failed upload follows; when the file does not exist there is no      *)
(* upload and the message about the missing chart is sent.                  *)
C26_UploadThenRemove ==
    \A h \in Handlers :
       handler[h].pc \in {"done", "raised"} /\ handler[h].turn > 0 =>
          LET cs == handler[h].calls
              ups == CallsTo(h, "files_upload_v2")
              Posted(text) == \E i \in 1..Len(cs) :
                                 cs[i].call = "chat_postMessage" /\ cs[i].arg = PyStr(text)
          IN  /\ Len(ups) >= 1 => handler[h].success /\ ChartAt(h, TRUE)
              /\ handler[h].success /\ ChartAt(h, TRUE) => Len(ups) = 1
              /\ \A i \in 1..Len(cs) :
                    cs[i].call = "os.remove" =>
                       \E j \in 1..(i - 1) :
                          cs[j].call = "files_upload_v2" /\ cs[j].result.ok
              /\ \A j \in 1..Len(cs) :
                    cs[j].call = "files_upload_v2" /\ ~cs[j].result.ok =>
                       /\ CallsTo(h, "os.remove") = <<>>
                       /\ j < Len(cs) /\ cs[j + 1].call = "chat_postMessage"
                       /\ cs[j + 1].arg = PyStr("I created a chart but failed to upload it")
              /\ handler[h].success /\ ChartAt(h, FALSE) =>
                    /\ ups = <<>>
                    /\ Posted("I tried to create a chart but the file was not generated successfully.")

(* A fenced chart response was uploaded and the file removed after it. *)
C26_Witness ==
    \E h \in Handlers :
       /\ handler[h].pc = "done"
       /\ handler[h].response_text = Fenced(<<Punct("fence"), Punct("json")>>, ChartJson)
       /\ ChartAt(h, TRUE)
       /\ Len(CallsTo(h, "files_upload_v2")) = 1
       /\ CallsTo(h, "files_upload_v2")[1].result.ok
       /\ Len(CallsTo(h, "os.remove")) = 1

(* C27: every message and every file a handler sends goes to the thread of  *)
(* its conversation: the thread_ts argument is the event's thread_ts if it  *)
(* has one and the event's own ts otherwise.                                 *)
C27_AllInConversationThread ==
    \A h \in Handlers :
       handler[h].pc # "idle" =>
          \A i \in 1..Len(handler[h].calls) :
             handler[h].calls[i].call \in {"chat_postMessage", "files_upload_v2"} =>
                handler[h].calls[i].thread_ts =
                   IF handler[h].req.thread_ts # PyNone
                   THEN handler[h].req.thread_ts
                   ELSE handler[h].req.ts

(* C28: a handler whose call of the agent has returned has, after that      *)
(* call, sent a message or uploaded a file, and has come to the cache       *)
(* update and returned.                                                      *)
C28_EveryEventAnswered ==
    \A h \in Handlers :
       Len(CallsTo(h, "process_user_question")) >= 1 =>
          /\ handler[h].pc = "done"
          /\ \E i, j \in 1..Len(handler[h].calls) :
                /\ i < j
                /\ handler[h].calls[i].call = "process_user_question"
                /\ handler[h].calls[j].call \in {"chat_postMessage", "files_upload_v2"}

(* C29: a handler of an event of thread T that stores a history extends the *)
(* entry CONVERSATION_CACHE[T] holds at the moment of the write: the turns  *)
(* stored before the write are still there after it.                        *)
C29_WriteExtendsCurrentEntry ==
    [][\A h \in Handlers :
          LET T == handler[h].conversation_id.v IN
          (/\ handler[h].pc = "agent" /\ handler'[h].pc = "done"
           /\ handler'[h].req.thread_ts # PyNone
           /\ handler'[h].final_history # PyList(<<>>)
           /\ Stored(T) # PyNone) =>
             /\ Len(Stored(T).v) <= Len(Stored(T)'.v)
             /\ SubSeq(Stored(T)'.v, 1, Len(Stored(T).v)) = Stored(T).v
      ]_bot_vars

====
